---------------------------- MODULE Spec2Model ----------------------------
(***************************************************************************)
(* A model of the agent service of ai-support-agent-system:                *)
(*   - the chat endpoint (app/api/v1/agent_api.py),                        *)
(*   - the LangGraph state machine of Agent (app/agent/core.py),           *)
(*   - the FAISS vector store manager (app/rag/vector_db.py).              *)
(*                                                                         *)
(* Text is modelled as a sequence of tokens.  The clarification marker     *)
(* "CLARIFY: " is one token, " " is whitespace, every other token is       *)
(* opaque non-blank text.  None is modelled by an option record.           *)
(***************************************************************************)
EXTENDS Integers, Sequences, FiniteSets, TLC

VARIABLES
    agent_instance,   \* agent_api.py:22   the global Agent ("None" or "Agent")
    request,          \* the ChatRequest being served
    pc,               \* position of the request in chat_endpoint / the graph
    state,            \* the AgentState channels of the running graph
    route,            \* last value returned by should_continue
    llm,              \* last outcome of self.llm.invoke
    steps,            \* the graph nodes that have completed, in order
    calls,            \* external calls made for this request
    http,             \* the HTTP outcome of the request
    prompt,           \* what the last DECIDE put into the request to the LLM
    query,            \* what RETRIEVE asked the embedding model and the index
    peer,             \* a second request served concurrently by the same Agent
    db,               \* a VectorDBManager (index, doc_store)
    disk,             \* the file at index_path
    saved,            \* the manager as it was when it last wrote the file
    last,             \* the last VectorDBManager call and its outcome
    writer,           \* the upsert_vectors call that a thread is inside
    callers,          \* the threads that run get_agent for concurrent requests
    built,            \* how many Agent objects have been constructed
    session           \* st.session_state.messages of the UI (ui_service/app.py:21)

vars == <<agent_instance, request, pc, state, route, llm, steps, calls, http,
          prompt, query, peer, db, disk, saved, last, writer, callers, built, session>>

apiVars == <<agent_instance, request, pc, state, route, llm, steps, calls, http,
             prompt, query, peer>>
dbVars  == <<db, disk, saved, last>>
auxVars == <<writer, callers, built, session>>

-----------------------------------------------------------------------------
(* Bounds of the model *)

MaxCycles == 2        \* tool cycles the modelled LLM may ask for in Spec
MaxLoopCycles == 6    \* tool cycles the modelled LLM may ask for in SpecLoop
MaxVectors == 2       \* vectors an index may hold in SpecIndex and SpecStore
MaxBatch == 2         \* longest vector / payload list of one upsert
MaxLimit == 3         \* largest `limit` of a search in SpecStore
MaxCallers == 2       \* threads that run get_agent at the same time in SpecCallers
MaxTurns == 2         \* messages the user sends in one UI session in SpecUI

-----------------------------------------------------------------------------
(* Optional values *)

None == [some |-> FALSE, val |-> <<>>]
Some(v) == [some |-> TRUE, val |-> v]
\* Python truthiness of an optional string or list: None, "" and [] are falsy
Truthy(o) == o.some /\ o.val # <<>>

-----------------------------------------------------------------------------
(* Text *)

MARKER == "CLARIFY: "
BLANK == " "

\* str.startswith("CLARIFY: ")
StartsWithMarker(c) == Len(c) >= 1 /\ c[1] = MARKER

\* str.replace("CLARIFY: ", ""): removes every occurrence
RECURSIVE ReplaceMarker(_)
ReplaceMarker(c) ==
    IF c = <<>> THEN <<>>
    ELSE IF Head(c) = MARKER THEN ReplaceMarker(Tail(c))
         ELSE <<Head(c)>> \o ReplaceMarker(Tail(c))

RECURSIVE LStrip(_)
LStrip(c) == IF c # <<>> /\ Head(c) = BLANK THEN LStrip(Tail(c)) ELSE c

RECURSIVE RStrip(_)
RStrip(c) ==
    IF c # <<>> /\ c[Len(c)] = BLANK THEN RStrip(SubSeq(c, 1, Len(c) - 1)) ELSE c

\* str.strip()
Strip(c) == RStrip(LStrip(c))

-----------------------------------------------------------------------------
(* Messages (langchain_core.messages) *)

Msg(t, c, tcs, id) == [type |-> t, content |-> c, tool_calls |-> tcs, tool_call_id |-> id]
HumanMessage(c) == Msg("human", c, <<>>, "")
SystemMessage(c) == Msg("system", c, <<>>, "")
AIMessage(c, tcs) == Msg("ai", c, tcs, "")
ToolMessage(c, id) == Msg("tool", c, <<>>, id)

\* a tool call requested by the model: name, args (a dict with at most the
\* keys "expression" and "city"; None = key absent) and id
ToolCall(n, e, c, id) == [name |-> n, expression |-> e, city |-> c, id |-> id]


-----------------------------------------------------------------------------
(* Tools (core.py:74-99) *)

\* eval(expression): a value, an Exception, or a BaseException that is no
\* Exception (SystemExit raised by the evaluated text).  eval evaluates any
\* Python expression, calls included.
Eval(expression) ==
    CASE expression = "2+2" -> [kind |-> "value", text |-> "4"]
      [] expression = "len('ab')" -> [kind |-> "value", text |-> "2"]
      [] expression = "exit()" -> [kind |-> "exit", text |-> ""]
      [] OTHER -> [kind |-> "exception", text |-> "division by zero"]

\* Agent._execute_calculator: try: str(eval(expression)) except Exception: "Error: ..."
execute_calculator(expression) ==
    LET r == Eval(expression) IN
    CASE r.kind = "value" -> [kind |-> "output", text |-> r.text]
      [] r.kind = "exception" -> [kind |-> "output", text |-> "Error: Could not calculate."]
      [] OTHER -> [kind |-> "exit", text |-> ""]

\* Agent._execute_weather: mock_weather_data.get(city, fallback)
execute_weather(city) ==
    CASE city = "Hyderabad" -> [kind |-> "output", text |-> "Sunny, 25C, Light breeze"]
      [] city = "Mumbai" -> [kind |-> "output", text |-> "Cloudy, 20C, Chance of rain"]
      [] city = "Chennai" -> [kind |-> "output", text |-> "Partly cloudy, 28C, High humidity"]
      [] city = "Bengaluru" -> [kind |-> "output", text |-> "Monsoon showers, 23C, Moderate wind"]
      [] OTHER -> [kind |-> "output", text |-> "Weather data not available for this city."]

\* {"error": error_msg} as it appears in tool_outputs
ErrMissingExpression == "{error: Calculator tool requires an 'expression' argument.}"
ErrMissingCity == "{error: Weather tool requires a 'city' argument.}"
ErrUnknownTool == "{error: Unknown tool}"

ErrorResults ==
    {ErrMissingExpression, ErrMissingCity, ErrUnknownTool, "Error: Could not calculate."}

\* the body of the for loop of execute_tool for one tool call (core.py:236-261):
\* "output" is appended as is, "error" is appended as {"error": ...}, "exit"
\* is an exception that `except Exception` does not catch
run_tool_call(tc) ==
    CASE tc.name = "calculator" ->
            IF ~tc.expression.some
            THEN [kind |-> "error", text |-> ErrMissingExpression]
            ELSE execute_calculator(tc.expression.val)
      [] tc.name = "weather" ->
            IF ~tc.city.some
            THEN [kind |-> "error", text |-> ErrMissingCity]
            ELSE execute_weather(tc.city.val)
      [] OTHER -> [kind |-> "error", text |-> ErrUnknownTool]

\* the for loop over tool_calls: the outputs collected, and whether the loop
\* was left by an uncaught exception
RECURSIVE run_tool_calls(_)
run_tool_calls(tcs) ==
    IF tcs = <<>> THEN [exit |-> FALSE, outputs |-> <<>>]
    ELSE LET r == run_tool_call(Head(tcs)) IN
         IF r.kind = "exit" THEN [exit |-> TRUE, outputs |-> <<>>]
         ELSE LET rest == run_tool_calls(Tail(tcs)) IN
              [exit |-> rest.exit, outputs |-> <<r.text>> \o rest.outputs]

-----------------------------------------------------------------------------
(* VectorDBManager (vector_db.py) *)

Digits == <<"0", "1", "2", "3", "4", "5", "6", "7", "8", "9">>

\* str(i) of an integer, as its sequence of characters
RECURSIVE Str(_)
Str(i) ==
    IF i < 0 THEN <<"-">> \o Str(-i)
    ELSE IF i < 10 THEN <<Digits[i + 1]>>
    ELSE Str(i \div 10) \o <<Digits[(i % 10) + 1]>>

NoIndex == [some |-> FALSE, d |-> 0, vecs |-> <<>>]
\* faiss.IndexFlatL2(vector_size): ntotal = Len(vecs), the vector at
\* position i + 1 has the internal id i
IndexFlatL2(vector_size) == [some |-> TRUE, d |-> vector_size, vecs |-> <<>>]
ntotal(index) == Len(index.vecs)

EmptyStore == [k \in {} |-> None]

\* VectorDBManager.__init__
NewVectorDBManager == [index |-> NoIndex, doc_store |-> EmptyStore]

NoFile == [exists |-> FALSE, index |-> NoIndex]

\* dict assignment doc_store[k] = v
DictSet(store, k, v) ==
    [x \in (DOMAIN store) \cup {k} |-> IF x = k THEN v ELSE store[x]]

\* dict.get(k): None when the key is absent
DictGet(store, k) == IF k \in DOMAIN store THEN Some(store[k]) ELSE None

\* squared L2 distance, the score of IndexFlatL2
RECURSIVE SqDist(_, _)
SqDist(q, v) ==
    IF q = <<>> THEN 0
    ELSE (Head(q) - Head(v)) * (Head(q) - Head(v)) + SqDist(Tail(q), Tail(v))

\* the id in `ids` nearest to q, the smaller id on equal distance
Nearest(index, q, ids) ==
    CHOOSE i \in ids :
        \A j \in ids :
            \/ SqDist(q, index.vecs[i + 1]) < SqDist(q, index.vecs[j + 1])
            \/ SqDist(q, index.vecs[i + 1]) = SqDist(q, index.vecs[j + 1]) /\ i <= j

\* index.search(query, limit): `limit` slots, best first, -1 for a slot
\* that has no vector
RECURSIVE FaissSearch(_, _, _, _)
FaissSearch(index, q, limit, ids) ==
    IF limit = 0 THEN <<>>
    ELSE IF ids = {} THEN <<[idx |-> -1, distance |-> 0]>> \o FaissSearch(index, q, limit - 1, ids)
    ELSE LET i == Nearest(index, q, ids) IN
         <<[idx |-> i, distance |-> SqDist(q, index.vecs[i + 1])]>>
             \o FaissSearch(index, q, limit - 1, ids \ {i})

\* a dict without keys
EmptyDict == [k \in {} |-> ""]

\* `if payload:` is false for None and for a dict without keys
TruthyPayload(payload) == payload.some /\ DOMAIN payload.val # {}

\* the loop of search_vectors with a break where the code continues
RECURSIVE CollectResults_break(_, _)
CollectResults_break(store, slots) ==
    IF slots = <<>> THEN <<>>
    ELSE LET s == Head(slots)
             payload == DictGet(store, Str(s.idx))
         IN  IF s.idx = -1 \/ ~TruthyPayload(payload)
             THEN <<>>
             ELSE <<[payload |-> payload.val, score |-> s.distance]>>
                      \o CollectResults_break(store, Tail(slots))

\* the loop of search_vectors over indices[0] (vector_db.py:108-116)
RECURSIVE CollectResults(_, _)
CollectResults(store, slots) ==
    IF slots = <<>> THEN <<>>
    ELSE LET s == Head(slots)
             payload == DictGet(store, Str(s.idx))
         IN  IF s.idx = -1 \/ ~TruthyPayload(payload)
             THEN CollectResults(store, Tail(slots))
             ELSE <<[payload |-> payload.val, score |-> s.distance]>>
                      \o CollectResults(store, Tail(slots))

\* VectorDBManager.search_vectors: the list returned, or an exception of
\* index.search (a query of the wrong dimension)
search_vectors(m, query_vector, limit) ==
    IF ~m.index.some THEN [raised |-> FALSE, results |-> <<>>]
    ELSE IF Len(query_vector) # m.index.d THEN [raised |-> TRUE, results |-> <<>>]
    ELSE [raised |-> FALSE,
          results |-> CollectResults(m.doc_store,
                         FaissSearch(m.index, query_vector, limit,
                                     0 .. (ntotal(m.index) - 1)))]

-----------------------------------------------------------------------------
(* The LangGraph state machine of Agent (core.py) *)

Document(c, src, score) == [page_content |-> c, source |-> src, score |-> score]

\* AgentState (core.py:17-22)
AgentState(msgs, docs, tcs, out, q) ==
    [messages |-> msgs, relevant_docs |-> docs, tool_calls |-> tcs,
     tool_output |-> out, clarifying_question |-> q]

\* a graph whose `messages` channel keeps the last value written
apply_update_overwrite(st, upd) == upd

\* How the graph applies the dict a node returns: `messages` is declared
\* with the reducer `lambda left, right: left + right` (core.py:18), every
\* other channel keeps the last value written.
apply_update(st, upd) ==
    [upd EXCEPT !.messages = st.messages \o upd.messages]

\* a scan from the start: the content of the earliest HumanMessage
RECURSIVE earliest_human(_)
earliest_human(msgs) ==
    IF msgs = <<>> THEN None
    ELSE IF Head(msgs).type = "human" THEN Some(Head(msgs).content)
    ELSE earliest_human(Tail(msgs))

\* for msg in reversed(messages): the content of the first HumanMessage found
RECURSIVE latest_human(_)
latest_human(msgs) ==
    IF msgs = <<>> THEN None
    ELSE IF msgs[Len(msgs)].type = "human" THEN Some(msgs[Len(msgs)].content)
    ELSE latest_human(SubSeq(msgs, 1, Len(msgs) - 1))

\* res.get('content', ''), res.get('source', 'unknown'), res['score'] of a
\* search result, whose keys are "payload" and "score" (core.py:129-133)
RECURSIVE to_documents(_)
to_documents(results) ==
    IF results = <<>> THEN <<>>
    ELSE <<Document("", "unknown", Head(results).score)>> \o to_documents(Tail(results))

\* retrieve_documents that answers a failure with a document about it
retrieve_documents_error_doc(st, m, embedded) ==
    LET found == search_vectors(m, embedded.val, 5)
        docs == IF ~Truthy(latest_human(st.messages)) THEN <<>>
                ELSE IF ~embedded.some \/ found.raised
                     THEN <<Document("retrieval failed", "unknown", 0)>>
                ELSE to_documents(found.results)
    IN  AgentState(st.messages, docs, <<>>, None, None)

\* retrieve_documents (core.py:103-154): the dict returned.  `embedded` is
\* the outcome of embed_query: None when it raises, else the query vector.
retrieve_documents(st, m, embedded) ==
    LET found == search_vectors(m, embedded.val, 5)
        docs == IF ~Truthy(latest_human(st.messages)) THEN <<>>
                ELSE IF ~embedded.some \/ found.raised THEN <<>>
                ELSE to_documents(found.results)
    IN  AgentState(st.messages, docs, <<>>, None, None)

NoQuery == [text |-> None, limit |-> 0]

\* the text that retrieve_documents passes to embed_query and the limit it
\* passes to search_vectors (core.py:125-126); nothing when it skips the
\* retrieval, no limit when embed_query raises
retrieve_query(st, embedded) ==
    IF ~Truthy(latest_human(st.messages)) THEN NoQuery
    ELSE [text |-> latest_human(st.messages), limit |-> IF embedded.some THEN 5 ELSE 0]

LLMErrorText == "Error: Could not get a response from the AI."

NoPrompt == [context |-> <<>>, tool_output |-> None, messages |-> <<>>]

\* llm_messages of generate_response_or_tool_call (core.py:160-200): one
\* SystemMessage, of which `context` and `tool_output` are what the code
\* puts into it (the page contents of relevant_docs, and tool_output when
\* it is truthy), followed by `messages`
llm_request(st) ==
    [context |-> [i \in 1 .. Len(st.relevant_docs) |-> st.relevant_docs[i].page_content],
     tool_output |-> IF Truthy(st.tool_output) THEN st.tool_output ELSE None,
     messages |-> st.messages]

\* generate_response_or_tool_call that returns tool_output as it found it
generate_response_keeps_tool_output(st, r) ==
    IF r.failed
    THEN AgentState(st.messages \o <<AIMessage(<<LLMErrorText>>, <<>>)>>,
                    st.relevant_docs, <<>>, st.tool_output, None)
    ELSE IF StartsWithMarker(r.content)
    THEN AgentState(<<AIMessage(r.content, r.tool_calls)>>, st.relevant_docs, <<>>,
                    st.tool_output, Some(Strip(ReplaceMarker(r.content))))
    ELSE AgentState(st.messages \o <<AIMessage(r.content, r.tool_calls)>>,
                    st.relevant_docs, <<>>, st.tool_output, None)

\* generate_response_or_tool_call (core.py:203-215): the dict returned for
\* an outcome r of self.llm.invoke
generate_response_or_tool_call(st, r) ==
    IF r.failed
    THEN AgentState(st.messages \o <<AIMessage(<<LLMErrorText>>, <<>>)>>,
                    st.relevant_docs, <<>>, None, None)
    ELSE IF StartsWithMarker(r.content)
    THEN AgentState(<<AIMessage(r.content, r.tool_calls)>>, st.relevant_docs, <<>>, None,
                    Some(Strip(ReplaceMarker(r.content))))
    ELSE AgentState(st.messages \o <<AIMessage(r.content, r.tool_calls)>>,
                    st.relevant_docs, <<>>, None, None)

\* execute_tool that returns no relevant_docs
execute_tool_drops_docs(st) ==
    LET latest_ai_message == st.messages[Len(st.messages)]
        tool_calls == latest_ai_message.tool_calls
        ran == run_tool_calls(tool_calls)
    IN  IF tool_calls = <<>>
        THEN [exit |-> FALSE, update |-> AgentState(st.messages, <<>>, <<>>, None, None)]
        ELSE IF ran.exit
        THEN [exit |-> TRUE, update |-> st]
        ELSE [exit |-> FALSE,
              update |-> AgentState(
                  st.messages \o <<ToolMessage(ran.outputs, tool_calls[1].id)>>,
                  <<>>, <<>>, Some(ran.outputs), None)]

\* execute_tool (core.py:218-269): the dict returned, or an exception that
\* leaves the node
execute_tool(st) ==
    LET latest_ai_message == st.messages[Len(st.messages)]
        tool_calls == latest_ai_message.tool_calls
        ran == run_tool_calls(tool_calls)
    IN  IF tool_calls = <<>>
        THEN [exit |-> FALSE,
              update |-> AgentState(st.messages, st.relevant_docs, <<>>, None, None)]
        ELSE IF ran.exit
        THEN [exit |-> TRUE, update |-> st]
        ELSE [exit |-> FALSE,
              update |-> AgentState(
                  st.messages \o <<ToolMessage(ran.outputs, tool_calls[1].id)>>,
                  st.relevant_docs, <<>>, Some(ran.outputs), None)]

\* should_continue without the test of the latest message's tool calls
should_continue_always(st) ==
    IF Truthy(st.clarifying_question) THEN "clarify" ELSE "continue"

\* should_continue (core.py:272-285)
should_continue(st) ==
    IF Truthy(st.clarifying_question) THEN "clarify"
    ELSE IF st.messages[Len(st.messages)].tool_calls # <<>> THEN "continue"
    ELSE "end"

\* conditional edges that send "clarify" to execute_tool
edge_clarify_to_tool(r) ==
    CASE r = "continue" -> "execute_tool"
      [] r = "clarify" -> "execute_tool"
      [] OTHER -> "END"

\* the conditional edges of build_graph (core.py:312-320)
edge_after_generate(r) ==
    CASE r = "continue" -> "execute_tool"
      [] r = "clarify" -> "END"
      [] OTHER -> "END"

-----------------------------------------------------------------------------
(* chat_endpoint (agent_api.py) *)

\* a record of request.chat_history; type "<absent>" is a dict without the
\* key "type"
HistoryRecord(t, c, tcs, id) == [type |-> t, content |-> c, tool_calls |-> tcs, tool_call_id |-> id]

\* msg["type"] raises KeyError for some record (agent_api.py:60)
history_raises(history) == \E i \in 1 .. Len(history) : history[i].type = "<absent>"

\* the loop that rebuilds the chat history (agent_api.py:58-70): a record
\* of a type that matches no branch is skipped
RECURSIVE langchain_chat_history(_)
langchain_chat_history(history) ==
    IF history = <<>> THEN <<>>
    ELSE LET msg == Head(history)
             rest == langchain_chat_history(Tail(history))
         IN  CASE msg.type = "human" -> <<HumanMessage(msg.content)>> \o rest
               [] msg.type = "ai" -> <<AIMessage(msg.content, msg.tool_calls)>> \o rest
               [] msg.type = "tool" -> <<ToolMessage(msg.content, msg.tool_call_id)>> \o rest
               [] msg.type = "system" -> <<SystemMessage(msg.content)>> \o rest
               [] OTHER -> rest

\* initial_state (agent_api.py:73-77)
initial_state(req) ==
    AgentState(langchain_chat_history(req.chat_history) \o <<HumanMessage(req.message)>>,
               <<>>, <<>>, None, None)

\* the state of the channels before the input is written: the reducer
\* channel starts from list()
EmptyChannels == AgentState(<<>>, <<>>, <<>>, None, None)

FallbackText ==
    "I processed your request, but I couldn't formulate a direct answer. Please check the logs for details."

\* the loop over reversed(final_state['messages']) (agent_api.py:109-117)
RECURSIVE scan_final(_, _)
scan_final(msgs, i) ==
    IF i = 0 THEN None
    ELSE IF msgs[i].type = "ai" /\ msgs[i].tool_calls = <<>> THEN Some(msgs[i].content)
    ELSE IF msgs[i].type = "human"
         THEN IF msgs[Len(msgs)].type = "ai" THEN Some(msgs[Len(msgs)].content) ELSE None
    ELSE scan_final(msgs, i - 1)

\* a final response taken from the earliest assistant turn of the transcript
final_ai_response_earliest(msgs) ==
    LET ai == {i \in 1 .. Len(msgs) : msgs[i].type = "ai"} IN
    IF ai = {} THEN <<FallbackText>>
    ELSE msgs[CHOOSE i \in ai : \A j \in ai : i <= j].content

\* final_ai_response (agent_api.py:109-124)
final_ai_response(msgs) ==
    LET found == scan_final(msgs, Len(msgs)) IN
    IF Truthy(found) THEN found.val
    ELSE IF msgs[Len(msgs)].type = "ai" THEN msgs[Len(msgs)].content
    ELSE <<FallbackText>>

\* updated_chat_history (agent_api.py:129-141): tool calls keep name and args
updated_chat_history(msgs) ==
    [k \in 1 .. Len(msgs) |->
        HistoryRecord(msgs[k].type, msgs[k].content,
                      [i \in 1 .. Len(msgs[k].tool_calls) |->
                          [msgs[k].tool_calls[i] EXCEPT !.id = ""]],
                      msgs[k].tool_call_id)]

NoResponse ==
    [status |-> 0, response |-> <<>>, chat_history |-> <<>>,
     clarifying_question |-> None, relevant_docs |-> <<>>]

ChatResponse(resp, hist, q, docs) ==
    [status |-> 200, response |-> resp, chat_history |-> hist,
     clarifying_question |-> q, relevant_docs |-> docs]

\* raise HTTPException(status_code=500, ...)
HTTPException500 == [NoResponse EXCEPT !.status = 500]

\* what chat_endpoint returns for the final state of the graph
\* (agent_api.py:101-156)
chat_response(final_state) ==
    IF Truthy(final_state.clarifying_question)
    THEN ChatResponse(<<>>, <<>>, final_state.clarifying_question, <<>>)
    ELSE ChatResponse(final_ai_response(final_state.messages),
                      updated_chat_history(final_state.messages),
                      None, final_state.relevant_docs)

-----------------------------------------------------------------------------
(* Inputs *)

CalcOk == ToolCall("calculator", Some("2+2"), None, "call_1")
CalcDivZero == ToolCall("calculator", Some("1/0"), None, "call_2")
CalcExit == ToolCall("calculator", Some("exit()"), None, "call_3")
CalcNoArg == ToolCall("calculator", None, None, "call_4")
WeatherOk == ToolCall("weather", None, Some("Mumbai"), "call_5")
WeatherNoArg == ToolCall("weather", None, None, "call_6")
UnknownTool == ToolCall("search", None, None, "call_7")
CalcCall == ToolCall("calculator", Some("len('ab')"), None, "call_8")

ToolCalls == {CalcOk, CalcDivZero, CalcExit, CalcNoArg, WeatherOk, WeatherNoArg, UnknownTool}

ToolCallSeqs == {<<>>} \cup {<<a>> : a \in ToolCalls} \cup {<<a, b>> : a, b \in ToolCalls}

Contents ==
    { <<>>, <<"4">>, <<MARKER>>, <<MARKER, BLANK>>, <<MARKER, "Which city?">>,
      <<"4", MARKER>>, <<MARKER, "Which", MARKER, "city?">> }

LLMResponse(c, tcs) == [failed |-> FALSE, content |-> c, tool_calls |-> tcs]
LLMFailure == [failed |-> TRUE, content |-> <<>>, tool_calls |-> <<>>]
NoLLM == [failed |-> FALSE, content |-> <<"<none>">>, tool_calls |-> <<>>]

\* what the model may return at the first DECIDE of a run
Responses ==
    {LLMFailure}
        \cup {LLMResponse(c, <<>>) : c \in Contents}
        \cup {LLMResponse(<<>>, tcs) : tcs \in ToolCallSeqs}
        \cup {LLMResponse(c, <<CalcOk>>) : c \in {<<"4">>, <<MARKER>>, <<MARKER, "Which city?">>}}

\* what the model may return after a tool cycle
LoopResponses ==
    {LLMFailure}
        \cup {LLMResponse(c, tcs) :
                c \in {<<>>, <<"4">>, <<MARKER>>, <<MARKER, "Which city?">>},
                tcs \in {<<>>, <<CalcOk>>}}

\* what the model may return in a run that keeps asking for tools
LoopOnlyResponses ==
    { LLMResponse(<<"4">>, <<>>), LLMResponse(<<>>, <<CalcOk>>),
      LLMResponse(<<>>, <<UnknownTool>>) }

Hi == <<"hi">>

H_empty == <<>>
H_turn == <<HistoryRecord("human", <<"q">>, <<>>, ""), HistoryRecord("ai", <<"a">>, <<>>, "")>>
H_tool ==
    << HistoryRecord("human", <<"q">>, <<>>, ""),
       HistoryRecord("ai", <<>>, <<CalcOk>>, ""),
       HistoryRecord("tool", <<"4">>, <<>>, "call_1"),
       HistoryRecord("ai", <<"4">>, <<>>, "") >>
H_orphan == <<HistoryRecord("tool", <<"4">>, <<>>, "call_9")>>
H_unknown == <<HistoryRecord("function", <<"x">>, <<>>, "")>>
H_notype == <<HistoryRecord("<absent>", <<"x">>, <<>>, "")>>
H_system == <<HistoryRecord("system", <<"s">>, <<>>, "")>>

Histories == {H_empty, H_turn, H_tool, H_orphan, H_unknown, H_notype, H_system}

ChatRequest(m, h) == [message |-> m, chat_history |-> h]
NoRequest == ChatRequest(<<>>, <<>>)

Requests ==
    {ChatRequest(Hi, h) : h \in Histories} \cup {ChatRequest(<<>>, h) : h \in {H_empty, H_turn}}

LoopRequests == {ChatRequest(Hi, H_empty), ChatRequest(<<>>, H_empty)}

\* outcomes of embeddings_model.embed_query: it raises, or returns a vector
EmbedOutcomes == {None, Some(<<0>>), Some(<<2>>), Some(<<0, 1>>)}

-----------------------------------------------------------------------------
(* The chat request: actions *)

\* a run that has not started
NoPeer ==
    [request |-> NoRequest, pc |-> "idle", state |-> EmptyChannels, route |-> "none",
     llm |-> NoLLM, steps |-> <<>>]

\* the threads of the pool that run the dependency get_agent
Callers == 1 .. MaxCallers

\* a thread that is not inside get_agent; obj is the Agent it has
\* constructed and not yet stored, got is what get_agent returned to it
NoCaller == [at |-> "out", obj |-> "None", got |-> "None"]

\* the n-th Agent object constructed in the process
AgentObject(n) == IF n = 1 THEN "Agent" ELSE "Agent#" \o Digits[n + 1]

\* no thread is inside upsert_vectors
NoWriter == [busy |-> FALSE, vectors |-> <<>>, payloads |-> <<>>, i |-> 0, total |-> 0]

Init ==
    /\ agent_instance = "None"
    /\ request = NoRequest
    /\ pc = "idle"
    /\ state = EmptyChannels
    /\ route = "none"
    /\ llm = NoLLM
    /\ steps = <<>>
    /\ calls = {}
    /\ http = NoResponse
    /\ prompt = NoPrompt
    /\ query = NoQuery
    /\ peer = NoPeer
    /\ db = NewVectorDBManager
    /\ disk = NoFile
    /\ saved = NewVectorDBManager
    /\ last = [op |-> "init", raised |-> FALSE, total |-> 0, vectors |-> <<>>,
               payloads |-> <<>>, query |-> <<>>, limit |-> 0, slots |-> <<>>,
               results |-> <<>>, fault |-> FALSE]
    /\ writer = NoWriter
    /\ callers = [c \in Callers |-> NoCaller]
    /\ built = 0
    /\ session = <<>>

\* completed TOOL_EXEC steps of the run
Cycles == Cardinality({i \in DOMAIN steps : steps[i] = "execute_tool"})

\* the responses the modelled LLM may give now
Available(first, later, bound) ==
    LET base == IF Cycles = 0 THEN first ELSE later IN
    IF Cycles < bound THEN base ELSE {r \in base : r.tool_calls = <<>>}

\* a POST /chat arrives
Receive(reqs) ==
    /\ pc = "idle"
    /\ \E r \in reqs : request' = r
    /\ pc' = "get_agent"
    /\ UNCHANGED <<auxVars, agent_instance, state, route, llm, steps, calls, http, prompt, query, peer, dbVars>>

\* get_agent (agent_api.py:24-33): Agent(...) is constructed on first use,
\* with a new VectorDBManager (core.py:66); its constructor may raise, which
\* becomes HTTP 500
get_agent ==
    /\ pc = "get_agent"
    /\ IF agent_instance = "None"
       THEN \/ /\ agent_instance' = "Agent"
               /\ db' = NewVectorDBManager
               /\ pc' = "chat_endpoint"
               /\ http' = http
            \/ /\ agent_instance' = "None"
               /\ db' = db
               /\ pc' = "failed"
               /\ http' = HTTPException500
       ELSE /\ pc' = "chat_endpoint"
            /\ UNCHANGED <<agent_instance, http, db>>
    /\ UNCHANGED <<auxVars, request, state, route, llm, steps, calls, prompt, query, peer,
                 disk, saved, last>>

\* chat_endpoint up to ainvoke(initial_state) (agent_api.py:57-80, 164-168)
chat_endpoint_invoke ==
    /\ pc = "chat_endpoint"
    /\ IF history_raises(request.chat_history)
       THEN /\ http' = HTTPException500
            /\ pc' = "failed"
            /\ state' = state
       ELSE /\ state' = apply_update(EmptyChannels, initial_state(request))
            /\ pc' = "retrieve_documents"
            /\ http' = http
    /\ UNCHANGED <<auxVars, agent_instance, request, route, llm, steps, calls, prompt, query, peer, dbVars>>

\* node retrieve_documents, then the edge to generate_response_or_tool_call
node_retrieve_documents ==
    /\ pc = "retrieve_documents"
    /\ \E embedded \in EmbedOutcomes :
          /\ state' = apply_update(state, retrieve_documents(state, db, embedded))
          /\ query' = retrieve_query(state, embedded)
          /\ calls' = IF ~Truthy(latest_human(state.messages)) THEN calls
                      ELSE IF ~embedded.some THEN calls \cup {"embed"}
                      ELSE IF search_vectors(db, embedded.val, 5).raised
                           THEN calls \cup {"embed", "search", "search raised"}
                      ELSE calls \cup {"embed", "search"}
    /\ steps' = Append(steps, "retrieve_documents")
    /\ pc' = "generate_response_or_tool_call"
    /\ UNCHANGED <<auxVars, agent_instance, request, route, llm, http, prompt, peer, dbVars>>

\* node generate_response_or_tool_call, then the conditional edge
node_generate_response_or_tool_call(first, later, bound) ==
    /\ pc = "generate_response_or_tool_call"
    /\ \E r \in Available(first, later, bound) :
          /\ llm' = r
          /\ state' = apply_update(state, generate_response_or_tool_call(state, r))
    /\ route' = should_continue(state')
    /\ pc' = edge_after_generate(route')
    /\ steps' = Append(steps, "generate_response_or_tool_call")
    /\ calls' = calls \cup {"llm"}
    /\ prompt' = llm_request(state)
    /\ UNCHANGED <<auxVars, agent_instance, request, http, query, peer, dbVars>>

\* node execute_tool, then the edge back to generate_response_or_tool_call;
\* an exception that leaves the node leaves the graph and the endpoint
node_execute_tool ==
    /\ pc = "execute_tool"
    /\ LET r == execute_tool(state) IN
       IF r.exit
       THEN /\ pc' = "aborted"
            /\ UNCHANGED <<state, steps>>
       ELSE /\ state' = apply_update(state, r.update)
            /\ steps' = Append(steps, "execute_tool")
            /\ pc' = "generate_response_or_tool_call"
    /\ calls' = calls \cup {"tool"}
    /\ UNCHANGED <<auxVars, agent_instance, request, route, llm, http, prompt, query, peer, dbVars>>

\* chat_endpoint after the graph has ended (agent_api.py:85-156)
chat_endpoint_respond ==
    /\ pc = "END"
    /\ http' = chat_response(state)
    /\ pc' = "done"
    /\ UNCHANGED <<auxVars, agent_instance, request, state, route, llm, steps, calls, prompt, query, peer, dbVars>>

Next ==
    \/ Receive(Requests)
    \/ get_agent
    \/ chat_endpoint_invoke
    \/ node_retrieve_documents
    \/ node_generate_response_or_tool_call(Responses, LoopResponses, MaxCycles)
    \/ node_execute_tool
    \/ chat_endpoint_respond

Spec == Init /\ [][Next]_vars

-----------------------------------------------------------------------------
(* Two requests served concurrently by the same Agent *)

\* channels that every invocation would find in one place
shared_channels(own, other) == other

\* the channels a node of a run works on: chat_endpoint builds a graph and
\* an initial state for every request (agent_api.py:73-80), and the nodes
\* read and return state dicts only, never attributes of the Agent
own_channels(own, other) == own

PeerCycles == Cardinality({i \in DOMAIN peer.steps : peer.steps[i] = "execute_tool"})

PairResponses ==
    { LLMFailure, LLMResponse(<<"4">>, <<>>), LLMResponse(<<MARKER, "Which city?">>, <<>>),
      LLMResponse(<<>>, <<CalcOk>>) }

\* the second request arrives and its graph is invoked
peer_chat_endpoint_invoke ==
    /\ agent_instance = "Agent"
    /\ peer.pc = "idle"
    /\ peer' = [peer EXCEPT
                   !.request = ChatRequest(<<"q2">>, H_turn),
                   !.state = apply_update(EmptyChannels,
                                          initial_state(ChatRequest(<<"q2">>, H_turn))),
                   !.pc = "retrieve_documents"]
    /\ UNCHANGED <<auxVars, agent_instance, request, pc, state, route, llm, steps, calls, http,
                   prompt, query, dbVars>>

peer_retrieve_documents ==
    /\ peer.pc = "retrieve_documents"
    /\ \E embedded \in EmbedOutcomes :
          LET st == own_channels(peer.state, state) IN
          peer' = [peer EXCEPT
                      !.state = apply_update(st, retrieve_documents(st, db, embedded)),
                      !.steps = Append(peer.steps, "retrieve_documents"),
                      !.pc = "generate_response_or_tool_call"]
    /\ UNCHANGED <<auxVars, agent_instance, request, pc, state, route, llm, steps, calls, http,
                   prompt, query, dbVars>>

peer_generate_response_or_tool_call ==
    /\ peer.pc = "generate_response_or_tool_call"
    /\ \E r \in PairResponses :
          /\ PeerCycles >= MaxCycles => r.tool_calls = <<>>
          /\ LET st == own_channels(peer.state, state)
                 new == apply_update(st, generate_response_or_tool_call(st, r))
             IN  peer' = [peer EXCEPT
                             !.llm = r,
                             !.state = new,
                             !.route = should_continue(new),
                             !.steps = Append(peer.steps, "generate_response_or_tool_call"),
                             !.pc = edge_after_generate(should_continue(new))]
    /\ UNCHANGED <<auxVars, agent_instance, request, pc, state, route, llm, steps, calls, http,
                   prompt, query, dbVars>>

peer_execute_tool ==
    /\ peer.pc = "execute_tool"
    /\ LET st == own_channels(peer.state, state)
           r == execute_tool(st)
       IN  peer' = IF r.exit THEN [peer EXCEPT !.pc = "aborted"]
                   ELSE [peer EXCEPT
                            !.state = apply_update(st, r.update),
                            !.steps = Append(peer.steps, "execute_tool"),
                            !.pc = "generate_response_or_tool_call"]
    /\ UNCHANGED <<auxVars, agent_instance, request, pc, state, route, llm, steps, calls, http,
                   prompt, query, dbVars>>

NextPair ==
    \/ Receive({ChatRequest(Hi, H_empty)})
    \/ get_agent
    \/ chat_endpoint_invoke
    \/ node_retrieve_documents
    \/ node_generate_response_or_tool_call(PairResponses, PairResponses, MaxCycles)
    \/ node_execute_tool
    \/ chat_endpoint_respond
    \/ peer_chat_endpoint_invoke
    \/ peer_retrieve_documents
    \/ peer_generate_response_or_tool_call
    \/ peer_execute_tool

SpecPair == Init /\ [][NextPair]_vars

-----------------------------------------------------------------------------
(* External calls that do not return *)

\* embed_query (core.py:125), llm.invoke (core.py:204) or a tool handler
\* (core.py:244, 249) is called and never returns: the calls are made
\* without a timeout, so the node stays in the call
external_call_never_returns ==
    /\ \/ pc = "retrieve_documents" /\ Truthy(latest_human(state.messages))
                                     /\ calls' = calls \cup {"embed"}
       \/ pc = "generate_response_or_tool_call" /\ calls' = calls \cup {"llm"}
       \/ pc = "execute_tool" /\ calls' = calls \cup {"tool"}
    /\ pc' = "blocked"
    /\ UNCHANGED <<auxVars, agent_instance, request, state, route, llm, steps, http, prompt,
                   query, peer, dbVars>>

NextHang ==
    \/ Receive(Requests)
    \/ get_agent
    \/ chat_endpoint_invoke
    \/ node_retrieve_documents
    \/ node_generate_response_or_tool_call(PairResponses, PairResponses, MaxCycles)
    \/ node_execute_tool
    \/ chat_endpoint_respond
    \/ external_call_never_returns

\* every step that can be taken is taken eventually
SpecHang == Init /\ [][NextHang]_vars /\ WF_vars(NextHang)

\* runs in which the model keeps asking for tools
NextLoop ==
    \/ Receive(LoopRequests)
    \/ get_agent
    \/ chat_endpoint_invoke
    \/ node_retrieve_documents
    \/ node_generate_response_or_tool_call(LoopOnlyResponses, LoopOnlyResponses, MaxLoopCycles)
    \/ node_execute_tool
    \/ chat_endpoint_respond

SpecLoop == Init /\ [][NextLoop]_vars

-----------------------------------------------------------------------------
(* VectorDBManager: operations *)

VectorSizes == {1}
Vectors == {<<0>>, <<2>>, <<0, 1>>}
Payloads == { [content |-> "Refunds take 5 days.", source |-> "faq.md"],
              [content |-> "Pods restart.", source |-> "k8s.md"] }

SeqsUpTo(S, n) == UNION {[1 .. k -> S] : k \in 0 .. n}

\* np.array(vectors) followed by index.add raises: an empty list has no
\* second dimension, and every row must have the dimension of the index
add_raises(index, vectors) ==
    \/ vectors = <<>>
    \/ \E i \in 1 .. Len(vectors) : Len(vectors[i]) # index.d

\* the loop that stores the payloads, keyed from the total after the add
RECURSIVE store_payloads_from_total(_, _, _, _)
store_payloads_from_total(store, current_total, payloads, i) ==
    IF i = Len(payloads) THEN store
    ELSE store_payloads_from_total(
            DictSet(store, Str(current_total + i), payloads[i + 1]),
            current_total, payloads, i + 1)

\* the loop that stores the payloads (vector_db.py:80-83)
RECURSIVE store_payloads(_, _, _, _)
store_payloads(store, current_total, payloads, i) ==
    IF i = Len(payloads) THEN store
    ELSE store_payloads(
            DictSet(store, Str(current_total - Len(payloads) + i), payloads[i + 1]),
            current_total, payloads, i + 1)

\* upsert_vectors with the payload loop moved before the add
upsert_vectors_payloads_first(m, vectors, payloads) ==
    IF ~m.index.some THEN [raised |-> TRUE, m |-> m]
    ELSE LET stored == store_payloads(m.doc_store, ntotal(m.index) + Len(vectors), payloads, 0) IN
         IF add_raises(m.index, vectors)
         THEN [raised |-> TRUE, m |-> [m EXCEPT !.doc_store = stored]]
         ELSE [raised |-> FALSE,
               m |-> [index |-> [m.index EXCEPT !.vecs = m.index.vecs \o vectors],
                      doc_store |-> stored]]

\* VectorDBManager.upsert_vectors: the manager afterwards, and whether the
\* call raised
upsert_vectors(m, vectors, payloads) ==
    IF ~m.index.some THEN [raised |-> TRUE, m |-> m]
    ELSE IF add_raises(m.index, vectors) THEN [raised |-> TRUE, m |-> m]
    ELSE LET index == [m.index EXCEPT !.vecs = m.index.vecs \o vectors] IN
         [raised |-> FALSE,
          m |-> [index |-> index,
                 doc_store |-> store_payloads(m.doc_store, ntotal(index), payloads, 0)]]

\* VectorDBManager._create_empty_index
create_empty_index(m, vector_size) ==
    [index |-> IndexFlatL2(vector_size), doc_store |-> EmptyStore]

\* VectorDBManager.load_or_create_index; read_ok: faiss.read_index returns
load_or_create_index(m, file, vector_size, read_ok) ==
    IF file.exists
    THEN IF read_ok THEN [m EXCEPT !.index = file.index]
         ELSE create_empty_index(m, vector_size)
    ELSE create_empty_index(m, vector_size)

\* VectorDBManager.save_index: the file afterwards; write_ok: faiss.write_index returns
save_index(m, file, write_ok) ==
    IF m.index.some /\ write_ok THEN [exists |-> TRUE, index |-> m.index] ELSE file

\* the record of a call: its arguments, the number of vectors before it,
\* whether it raised, for a search indices[0] and the list returned, and
\* for a save whether faiss.write_index raised inside it
Called(op, raised, total, vectors, payloads) ==
    [op |-> op, raised |-> raised, total |-> total, vectors |-> vectors,
     payloads |-> payloads, query |-> <<>>, limit |-> 0, slots |-> <<>>,
     results |-> <<>>, fault |-> FALSE]

\* a new VectorDBManager on the same index_path
do_new_manager ==
    /\ db' = NewVectorDBManager
    /\ last' = Called("new", FALSE, 0, <<>>, <<>>)
    /\ UNCHANGED <<auxVars, disk, saved, apiVars>>

do_create_empty_index ==
    /\ \E vector_size \in VectorSizes : db' = create_empty_index(db, vector_size)
    /\ last' = Called("create", FALSE, ntotal(db.index), <<>>, <<>>)
    /\ UNCHANGED <<auxVars, disk, saved, apiVars>>

do_load_or_create_index ==
    /\ \E vector_size \in VectorSizes, read_ok \in BOOLEAN :
          db' = load_or_create_index(db, disk, vector_size, read_ok)
    /\ last' = Called("load", FALSE, ntotal(db.index), <<>>, <<>>)
    /\ UNCHANGED <<auxVars, disk, saved, apiVars>>

\* upsert_vectors called with lists from `inputs`
do_upsert_vectors(inputs) ==
    /\ \E in \in inputs :
          /\ ntotal(db.index) + Len(in.vectors) <= MaxVectors
          /\ LET r == upsert_vectors(db, in.vectors, in.payloads) IN
             /\ db' = r.m
             /\ last' = Called("upsert", r.raised, ntotal(db.index), in.vectors, in.payloads)
    /\ UNCHANGED <<auxVars, disk, saved, apiVars>>

\* any two lists
AnyLists ==
    [vectors : SeqsUpTo(Vectors, MaxBatch), payloads : SeqsUpTo(Payloads, MaxBatch)]

\* lists of the same length, as ingest_documents builds them (ingest_data.py:47-65)
PairedLists == {in \in AnyLists : Len(in.vectors) = Len(in.payloads)}

do_save_index ==
    /\ \E write_ok \in BOOLEAN :
          /\ disk' = save_index(db, disk, write_ok)
          /\ saved' = IF db.index.some /\ write_ok THEN db ELSE saved
          /\ last' = [Called("save", FALSE, ntotal(db.index), <<>>, <<>>)
                          EXCEPT !.fault = db.index.some /\ ~write_ok]
    /\ UNCHANGED <<auxVars, db, apiVars>>

\* query vectors: the vectors, and one at the same distance from two of them
Queries == Vectors \cup {<<1>>}

\* search_vectors called with a query vector and a limit
do_search_vectors ==
    /\ \E q \in Queries, k \in 1 .. MaxLimit :
          LET r == search_vectors(db, q, k)
              slots == IF db.index.some /\ ~r.raised
                       THEN FaissSearch(db.index, q, k, 0 .. (ntotal(db.index) - 1))
                       ELSE <<>>
          IN  last' = [Called("search", r.raised, ntotal(db.index), <<>>, <<>>)
                          EXCEPT !.query = q, !.limit = k, !.slots = slots,
                                 !.results = r.results]
    /\ UNCHANGED <<auxVars, db, disk, saved, apiVars>>

\* one manager, never saved: create, load and upsert
NextIndex ==
    \/ do_create_empty_index
    \/ do_load_or_create_index
    \/ do_upsert_vectors(AnyLists)

SpecIndex == Init /\ [][NextIndex]_vars

\* managers that come and go over one index file
NextStore ==
    \/ do_new_manager
    \/ do_create_empty_index
    \/ do_load_or_create_index
    \/ do_upsert_vectors(PairedLists)
    \/ do_save_index
    \/ do_search_vectors

SpecStore == Init /\ [][NextStore]_vars

\* a thread enters upsert_vectors and runs it up to and including
\* index.add (vector_db.py:67-74); no lock is taken
upsert_add(inputs) ==
    /\ ~writer.busy
    /\ \E in \in inputs :
          /\ ntotal(db.index) + Len(in.vectors) <= MaxVectors
          /\ IF ~db.index.some \/ add_raises(db.index, in.vectors)
             THEN /\ db' = db
                  /\ writer' = writer
                  /\ last' = Called("upsert", TRUE, ntotal(db.index), in.vectors, in.payloads)
             ELSE /\ db' = [db EXCEPT !.index.vecs = @ \o in.vectors]
                  /\ writer' = [busy |-> TRUE, vectors |-> in.vectors,
                                payloads |-> in.payloads, i |-> 0,
                                total |-> ntotal(db.index)]
                  /\ last' = Called("add", FALSE, ntotal(db.index), in.vectors, in.payloads)
    /\ UNCHANGED <<disk, saved, apiVars, callers, built, session>>

\* the thread inside upsert_vectors runs one iteration of the payload loop,
\* or leaves the loop and returns (vector_db.py:80-85)
upsert_store ==
    /\ writer.busy
    /\ IF writer.i = Len(writer.payloads)
       THEN /\ db' = db
            /\ writer' = NoWriter
            /\ last' = Called("upsert", FALSE, writer.total, writer.vectors, writer.payloads)
       ELSE /\ db' = [db EXCEPT !.doc_store =
                        DictSet(@, Str(ntotal(db.index) - Len(writer.payloads) + writer.i),
                                writer.payloads[writer.i + 1])]
            /\ writer' = [writer EXCEPT !.i = @ + 1]
            /\ last' = Called("store", FALSE, writer.total, writer.vectors, writer.payloads)
    /\ UNCHANGED <<disk, saved, apiVars, callers, built, session>>

\* one thread creates the index and upserts into it, while other threads
\* search the same manager
NextThreads ==
    \/ (~writer.busy /\ do_create_empty_index)
    \/ upsert_add(PairedLists)
    \/ upsert_store
    \/ do_search_vectors

SpecThreads == Init /\ [][NextThreads]_vars

\* vectors of the dimension of the index, and payloads of which one is a
\* dict without keys
SearchVectors == {<<0>>, <<2>>}
SearchPayloads == { [content |-> "Refunds take 5 days.", source |-> "faq.md"], EmptyDict }
SearchLists ==
    [vectors : SeqsUpTo(SearchVectors, MaxBatch), payloads : SeqsUpTo(SearchPayloads, MaxBatch)]

\* one manager that is filled, with lists of any lengths, and searched
NextSearch ==
    \/ do_create_empty_index
    \/ do_upsert_vectors(SearchLists)
    \/ do_search_vectors

SpecSearch == Init /\ [][NextSearch]_vars

\* what the model may return in a run over a manager that holds documents
RagResponses ==
    { LLMFailure, LLMResponse(<<"4">>, <<>>), LLMResponse(<<MARKER, "Which city?">>, <<>>),
      LLMResponse(<<>>, <<CalcOk>>), LLMResponse(<<>>, <<CalcExit>>) }

\* a request served by an Agent whose vector_db_manager has been given an
\* index and documents, in process, after the Agent was constructed
NextRag ==
    \/ Receive(LoopRequests)
    \/ get_agent
    \/ (pc = "chat_endpoint" /\ do_create_empty_index)
    \/ (pc = "chat_endpoint" /\ do_upsert_vectors(PairedLists))
    \/ chat_endpoint_invoke
    \/ node_retrieve_documents
    \/ node_generate_response_or_tool_call(RagResponses, RagResponses, MaxCycles)
    \/ node_execute_tool
    \/ chat_endpoint_respond

SpecRag == Init /\ [][NextRag]_vars

\* the variables that get_agent in a thread leaves alone
callerFrame == <<request, pc, state, route, llm, steps, calls, http, prompt, query, peer,
                 dbVars, writer, session>>

\* a request arrives and a thread of the pool enters get_agent
get_agent_enter(c) ==
    /\ callers[c].at = "out"
    /\ callers' = [callers EXCEPT ![c] = [at |-> "test", obj |-> "None", got |-> "None"]]
    /\ UNCHANGED <<agent_instance, built, callerFrame>>

\* `if agent_instance is None:` (agent_api.py:24)
get_agent_test(c) ==
    /\ callers[c].at = "test"
    /\ callers' = [callers EXCEPT ![c].at =
                       IF agent_instance = "None" THEN "construct" ELSE "return"]
    /\ UNCHANGED <<agent_instance, built, callerFrame>>

\* Agent(gemini_api_key=...) returns a new object, or raises and the
\* request gets HTTP 500 (agent_api.py:26, 29-31)
get_agent_construct(c) ==
    /\ callers[c].at = "construct"
    /\ \/ /\ built' = built + 1
          /\ callers' = [callers EXCEPT ![c] = [@ EXCEPT !.at = "assign",
                                                          !.obj = AgentObject(built + 1)]]
       \/ /\ built' = built
          /\ callers' = [callers EXCEPT ![c].at = "failed"]
    /\ UNCHANGED <<agent_instance, callerFrame>>

\* the assignment to the global agent_instance (agent_api.py:26)
get_agent_assign(c) ==
    /\ callers[c].at = "assign"
    /\ agent_instance' = callers[c].obj
    /\ callers' = [callers EXCEPT ![c].at = "return"]
    /\ UNCHANGED <<built, callerFrame>>

\* `return agent_instance` (agent_api.py:33)
get_agent_return(c) ==
    /\ callers[c].at = "return"
    /\ callers' = [callers EXCEPT ![c] = [@ EXCEPT !.at = "done", !.got = agent_instance]]
    /\ UNCHANGED <<agent_instance, built, callerFrame>>

\* the request of the thread is over; the thread serves a later request
get_agent_leave(c) ==
    /\ callers[c].at \in {"done", "failed"}
    /\ callers' = [callers EXCEPT ![c] = NoCaller]
    /\ UNCHANGED <<agent_instance, built, callerFrame>>

\* concurrent requests, each running get_agent in a thread of the pool
NextCallers ==
    \E c \in Callers :
        \/ get_agent_enter(c)
        \/ get_agent_test(c)
        \/ get_agent_construct(c)
        \/ get_agent_assign(c)
        \/ get_agent_return(c)
        \/ get_agent_leave(c)

SpecCallers == Init /\ [][NextCallers]_vars

\* a message of st.session_state.messages
SessionMessage(role, content) == [role |-> role, content |-> content]

\* formatted_chat_history of call_agent_service (ui_service/app.py:76-87);
\* the UI stores no tool_calls with an assistant message, and no tool or
\* system message
format_chat_history(chat_history) ==
    [i \in 1 .. Len(chat_history) |->
        IF chat_history[i].role = "user"
        THEN HistoryRecord("human", chat_history[i].content, <<>>, "")
        ELSE HistoryRecord("ai", chat_history[i].content, <<>>, "")]

\* format_chat_history given the messages without the last one
format_chat_history_before(chat_history) ==
    format_chat_history(SubSeq(chat_history, 1, Len(chat_history) - 1))

\* what the user types
Prompts == {Hi, <<"q2">>}

\* the user messages of the session
UserMessages == {i \in 1 .. Len(session) : session[i].role = "user"}

\* the chat input handler up to the POST (ui_service/app.py:111-121, 72-96):
\* the prompt is appended to the session, then the session is sent as
\* chat_history along with the prompt
ui_chat_input ==
    /\ pc = "idle"
    /\ Cardinality(UserMessages) < MaxTurns
    /\ \E p \in Prompts :
          /\ session' = Append(session, SessionMessage("user", p))
          /\ request' = ChatRequest(p, format_chat_history(session'))
    /\ pc' = "get_agent"
    /\ state' = EmptyChannels
    /\ route' = "none"
    /\ llm' = NoLLM
    /\ steps' = <<>>
    /\ calls' = {}
    /\ http' = NoResponse
    /\ prompt' = NoPrompt
    /\ query' = NoQuery
    /\ UNCHANGED <<agent_instance, peer, dbVars, writer, callers, built>>

\* the chat input handler after the POST (ui_service/app.py:97-107,
\* 123-139): the answer or the clarifying question is appended to the
\* session; after an error nothing is appended
ui_receive ==
    /\ pc \in {"done", "failed", "aborted"}
    /\ session' =
          IF pc = "done" /\ http.status = 200
          THEN Append(session,
                      SessionMessage("assistant",
                          IF Truthy(http.clarifying_question)
                          THEN http.clarifying_question.val ELSE http.response))
          ELSE session
    /\ pc' = "idle"
    /\ UNCHANGED <<agent_instance, request, state, route, llm, steps, calls, http, prompt,
                   query, peer, dbVars, writer, callers, built>>

\* a UI session in front of the service
NextUI ==
    \/ ui_chat_input
    \/ get_agent
    \/ chat_endpoint_invoke
    \/ node_retrieve_documents
    \/ node_generate_response_or_tool_call(PairResponses, PairResponses, MaxCycles)
    \/ node_execute_tool
    \/ chat_endpoint_respond
    \/ ui_receive

SpecUI == Init /\ [][NextUI]_vars

\* ingest_documents runs as a process of its own before the service builds
\* its Agent: it creates an index, upserts and saves (ingest_data.py:64-72);
\* then requests are served by an Agent constructed over the same index_path
NextService ==
    \/ (agent_instance = "None" /\ pc = "idle" /\ do_create_empty_index)
    \/ (agent_instance = "None" /\ pc = "idle" /\ do_upsert_vectors(PairedLists))
    \/ (agent_instance = "None" /\ pc = "idle" /\ do_save_index)
    \/ Receive({ChatRequest(Hi, H_empty)})
    \/ get_agent
    \/ chat_endpoint_invoke
    \/ node_retrieve_documents
    \/ node_generate_response_or_tool_call(PairResponses, PairResponses, MaxCycles)
    \/ node_execute_tool
    \/ chat_endpoint_respond

SpecService == Init /\ [][NextService]_vars

\* what the model may return in a run that uses the calculator
CalcResponses ==
    { LLMResponse(<<"4">>, <<>>),
      LLMResponse(<<>>, <<CalcOk>>), LLMResponse(<<>>, <<CalcDivZero>>),
      LLMResponse(<<>>, <<CalcExit>>), LLMResponse(<<>>, <<CalcCall>>),
      LLMResponse(<<>>, <<CalcOk, CalcCall>>) }

\* requests whose tool cycles call the calculator
NextCalc ==
    \/ Receive(LoopRequests)
    \/ get_agent
    \/ chat_endpoint_invoke
    \/ node_retrieve_documents
    \/ node_generate_response_or_tool_call(CalcResponses, CalcResponses, MaxCycles)
    \/ node_execute_tool
    \/ chat_endpoint_respond

SpecCalc == Init /\ [][NextCalc]_vars

-----------------------------------------------------------------------------
(* Properties of the state machine *)

RETRIEVE == "retrieve_documents"
DECIDE == "generate_response_or_tool_call"
TOOL_EXEC == "execute_tool"

LastStep == IF steps = <<>> THEN "none" ELSE steps[Len(steps)]

\* the graph has ended
Ended == pc \in {"END", "done"}
ANSWERED == Ended /\ route = "end"
CLARIFYING == Ended /\ route = "clarify"

\* C1: the steps of a run follow RETRIEVE -> DECIDE -> (TOOL_EXEC -> DECIDE)*:
\* RETRIEVE is the first step and runs once, TOOL_EXEC runs only directly
\* after a DECIDE whose response carried tool requests, the step after a
\* TOOL_EXEC is a DECIDE, and no step runs once the graph has ended.
C1_StepOrder ==
    /\ steps # <<>> => steps[1] = RETRIEVE
    /\ \A i \in 2 .. Len(steps) : steps[i] # RETRIEVE
    /\ Len(steps) >= 2 => steps[2] = DECIDE
    /\ \A i \in 1 .. Len(steps) :
          steps[i] = TOOL_EXEC => i > 1 /\ steps[i - 1] = DECIDE
    /\ \A i \in 1 .. Len(steps) - 1 :
          /\ steps[i] = TOOL_EXEC => steps[i + 1] = DECIDE
          /\ steps[i] = DECIDE => steps[i + 1] = TOOL_EXEC
    /\ pc = RETRIEVE => steps = <<>>
    /\ pc = DECIDE => LastStep \in {RETRIEVE, TOOL_EXEC}
    /\ pc = TOOL_EXEC => LastStep = DECIDE /\ ~llm.failed /\ llm.tool_calls # <<>>
    /\ LastStep = TOOL_EXEC => pc = DECIDE /\ llm.tool_calls # <<>>
    /\ LastStep = RETRIEVE => pc = DECIDE
    /\ Ended => LastStep = DECIDE /\ route \in {"end", "clarify"}

C1_StepsFollowTheGraph ==
    [](C1_StepOrder) /\ [][Ended => Ended' /\ steps' = steps /\ state' = state]_vars

\* C1 witness: a run that made one tool cycle and ended
C1_Witness == steps = <<RETRIEVE, DECIDE, TOOL_EXEC, DECIDE>> /\ pc = "END"

\* the order of the positions of a request
Rank(p) ==
    CASE p = "idle" -> 0
      [] p = "get_agent" -> 1
      [] p = "chat_endpoint" -> 2
      [] p = RETRIEVE -> 3
      [] p = DECIDE -> 4
      [] p = TOOL_EXEC -> 5
      [] p = "END" -> 6
      [] OTHER -> 7

\* C2: a DECIDE whose response carries no tool request, or whose LLM call
\* fails, ends the run in ANSWERED or CLARIFYING; the only step that goes
\* back in the graph is TOOL_EXEC -> DECIDE.
C2_DecideWithoutToolsTerminates ==
    [][ /\ (pc = DECIDE /\ pc' # pc /\ (llm'.failed \/ llm'.tool_calls = <<>>))
            => (ANSWERED' \/ CLARIFYING')
        /\ pc' # pc => (Rank(pc') > Rank(pc) \/ (pc = TOOL_EXEC /\ pc' = DECIDE)) ]_vars

\* C2 witness: after a tool cycle the model answers without a tool request
\* and the run is ANSWERED
C2_Witness == Cycles >= 1 /\ llm.tool_calls = <<>> /\ ~llm.failed /\ ANSWERED

\* C3: a run in which the model asks for a tool at every DECIDE makes at
\* most 5 tool cycles: when the DECIDE after the fifth TOOL_EXEC asks for a
\* tool again, the run is ended with a fallback message.
C3_ToolLoopCappedAtFive ==
    /\ Cycles <= 5
    /\ (Cycles = 5 /\ LastStep = DECIDE /\ llm.tool_calls # <<>>)
          => /\ Ended
             /\ pc = "done" => (http.status = 200 /\ http.response # <<>>)

\* the latest step was a DECIDE whose response begins with the marker
DecidedWithMarker == LastStep = DECIDE /\ ~llm.failed /\ StartsWithMarker(llm.content)

\* C4: a DECIDE whose response text begins with "CLARIFY: " ends the run in
\* CLARIFYING with clarifying_question set, no TOOL_EXEC follows, and the
\* caller gets the question and no final answer.
C4_MarkerEndsInClarifying ==
    DecidedWithMarker =>
        /\ CLARIFYING
        /\ state.clarifying_question.some
        /\ pc = "done" =>
              /\ http.status = 200
              /\ Truthy(http.clarifying_question)
              /\ http.response = <<>>

\* the assistant turns of a transcript
AssistantTurns(msgs) == {i \in 1 .. Len(msgs) : msgs[i].type = "ai"}

IsPrefix(a, b) == Len(a) <= Len(b) /\ SubSeq(b, 1, Len(a)) = a

\* C5: a DECIDE whose LLM call fails appends exactly one assistant turn, the
\* error message without tool requests, and the run is ANSWERED.
C5_LLMFailureAppendsOneTurn ==
    [][ (pc = DECIDE /\ pc' # pc /\ llm'.failed) =>
            /\ IsPrefix(state.messages, state'.messages)
            /\ Cardinality(AssistantTurns(state'.messages))
                  = Cardinality(AssistantTurns(state.messages)) + 1
            /\ state'.messages[Len(state'.messages)] = AIMessage(<<LLMErrorText>>, <<>>)
            /\ ANSWERED' ]_vars

\* a tool request that cannot succeed: unknown tool, missing argument, or a
\* handler that faults
Faulty(tc) ==
    \/ tc.name \notin {"calculator", "weather"}
    \/ tc.name = "calculator" /\ ~tc.expression.some
    \/ tc.name = "weather" /\ ~tc.city.some
    \/ tc.name = "calculator" /\ tc.expression.some /\ Eval(tc.expression.val).kind # "value"

\* C6: TOOL_EXEC gives every request of the turn a result, an error result
\* for a faulty request, and goes back to DECIDE.
C6_FaultyToolCallIsAnErrorResult ==
    [][ (pc = TOOL_EXEC /\ pc' # pc) =>
            LET requests == state.messages[Len(state.messages)].tool_calls IN
            /\ pc' = DECIDE
            /\ state'.tool_output.some
            /\ Len(state'.tool_output.val) = Len(requests)
            /\ \A i \in 1 .. Len(requests) :
                  Faulty(requests[i]) => state'.tool_output.val[i] \in ErrorResults ]_vars

\* C7: every request with a history the endpoint can read is answered with
\* a non-error response that carries text or a clarifying question.
C7_AlwaysSomeText ==
    (~history_raises(request.chat_history) /\ pc \in {"done", "failed"}) =>
        /\ http.status = 200
        /\ (http.response # <<>> \/ Truthy(http.clarifying_question))

\* a tool record answers a request of the record right before it
Answers(h, i) ==
    /\ i > 1
    /\ h[i - 1].type = "ai"
    /\ \E k \in 1 .. Len(h[i - 1].tool_calls) : h[i - 1].tool_calls[k].id = h[i].tool_call_id

Malformed(h) ==
    \E i \in 1 .. Len(h) :
        \/ h[i].type \notin {"human", "ai", "tool", "system"}
        \/ h[i].type = "tool" /\ ~Answers(h, i)

\* C8: a request with a malformed history is rejected with a client error
\* before RETRIEVE: no step runs and no embedding, index or LLM call is made.
C8_MalformedHistoryRejected ==
    (Malformed(request.chat_history) /\ agent_instance = "Agent") =>
        /\ steps = <<>>
        /\ calls = {}
        /\ pc \in {"chat_endpoint", "failed"}
        /\ pc = "failed" => http.status \in 400 .. 499

-----------------------------------------------------------------------------
(* Properties of VectorDBManager *)

Ids(index) == 0 .. (ntotal(index) - 1)

\* C9: the index and the payload map are the same size and co-indexed.
C9_VectorsAndPayloadsCoIndexed ==
    db.index.some =>
        /\ Cardinality(DOMAIN db.doc_store) = ntotal(db.index)
        /\ \A i \in Ids(db.index) : Str(i) \in DOMAIN db.doc_store

\* C10: an upsert of n vectors and n payloads into an index of T vectors
\* keeps the T vectors, gives the i-th new vector the id T + i, stores the
\* i-th payload under that id, and leaves T + n vectors.
C10_UpsertAssignsSequentialIds ==
    [][ (last'.op = "upsert" /\ ~last'.raised
            /\ Len(last'.vectors) = Len(last'.payloads)) =>
            LET T == ntotal(db.index)
                n == Len(last'.vectors)
            IN  /\ last'.total = T
                /\ ntotal(db'.index) = T + n
                /\ SubSeq(db'.index.vecs, 1, T) = db.index.vecs
                /\ \A i \in 0 .. n - 1 :
                      /\ db'.index.vecs[T + i + 1] = last'.vectors[i + 1]
                      /\ DictGet(db'.doc_store, Str(T + i)) = Some(last'.payloads[i + 1]) ]_vars

\* C10 witness: a second upsert, into an index that holds a vector
C10_Witness ==
    /\ last.op = "upsert" /\ ~last.raised
    /\ last.total = 1
    /\ Len(last.vectors) = 1 /\ Len(last.payloads) = 1
    /\ ntotal(db.index) = 2


\* the payloads held by a payload map
StoredPayloads(store) == {store[k] : k \in DOMAIN store}

\* C11: an upsert that raises (no index, or the insertion of the vectors
\* raises) leaves the vectors and the payload map as they were; an upsert
\* that returns has appended all its vectors and stored all its payloads.
C11_UpsertAllOrNothing ==
    [][ last'.op = "upsert" =>
            IF last'.raised
            THEN /\ db' = db
                 /\ (~db.index.some \/ add_raises(db.index, last'.vectors))
            ELSE /\ db'.index.vecs = db.index.vecs \o last'.vectors
                 /\ \A i \in 1 .. Len(last'.payloads) :
                       last'.payloads[i] \in StoredPayloads(db'.doc_store) ]_vars

\* C11 witness: an upsert of a vector of the wrong dimension raised on an
\* index that holds a vector and its payload
C11_Witness ==
    /\ last.op = "upsert" /\ last.raised
    /\ db.index.some /\ ntotal(db.index) = 1
    /\ Len(last.vectors) = 1 /\ Len(last.vectors[1]) # db.index.d
    /\ Len(last.payloads) = 1
    /\ Cardinality(DOMAIN db.doc_store) = 1


Min(a, b) == IF a <= b THEN a ELSE b

\* C12: a search with limit k >= 1 in an index of N >= 1 vectors returns
\* min(k, N) results in the order of non-decreasing distance, and no id twice.
C12_SearchReturnsMinKN ==
    (last.op = "search" /\ ~last.raised /\ db.index.some /\ ntotal(db.index) >= 1) =>
        /\ Len(last.results) = Min(last.limit, ntotal(db.index))
        /\ \A i \in 1 .. Len(last.results) - 1 :
              last.results[i].score <= last.results[i + 1].score
        /\ \A i, j \in 1 .. Len(last.slots) :
              (i # j /\ last.slots[i].idx # -1) => last.slots[i].idx # last.slots[j].idx


\* C13: when a new manager loads the file that a manager has saved, every
\* search gives what it gave in the manager that saved: the same hits with
\* the same payloads and scores.
C13_SaveLoadRoundTrip ==
    [][ (last.op = "new" /\ last'.op = "load" /\ disk.exists
            /\ db'.index = disk.index) =>
            \A q \in Queries, k \in 1 .. MaxLimit :
                search_vectors(db', q, k) = search_vectors(saved, q, k) ]_vars

\* C14: a save whose write fails is reported to the caller as failed and
\* leaves the file as it was; a save that succeeds writes the index.
C14_FailedSaveIsReported ==
    [][ last'.op = "save" =>
            IF last'.fault
            THEN last'.raised /\ disk' = disk
            ELSE db.index.some => (disk'.exists /\ disk'.index = db.index) ]_vars


-----------------------------------------------------------------------------
(* Properties of retrieval and of the channels of the state *)

\* the embedding call or the index search of RETRIEVE has failed
RetrievalFailed(c) == "embed" \in c /\ ("search" \notin c \/ "search raised" \in c)

\* C15: a RETRIEVE whose embedding call or index search fails completes
\* with an empty retrieved context and the run goes on to DECIDE.
C15_RetrievalFailureGivesEmptyContext ==
    [][ (pc = RETRIEVE /\ pc' # pc /\ RetrievalFailed(calls')) =>
            /\ pc' = DECIDE
            /\ steps' = Append(steps, RETRIEVE)
            /\ state'.relevant_docs = <<>>
            /\ http' = http ]_vars

\* C15 witness: the search raised on an index that holds a document, and
\* the request has been answered
C15_Witness ==
    /\ "search raised" \in calls
    /\ ntotal(db.index) >= 1
    /\ pc = "done" /\ http.status = 200


\* the documents that carry the payloads and the scores of search results
ExpectedDocs(results) ==
    [i \in 1 .. Len(results) |->
        Document(results[i].payload.content, results[i].payload.source, results[i].score)]

\* C16: after a RETRIEVE whose search returned, the documents in the state
\* carry the content and the source of the payloads of the hits and their
\* scores, and that content is the context of the DECIDE steps.
C16_DocumentsCarryThePayloads ==
    (steps # <<>> /\ "search" \in calls /\ "search raised" \notin calls) =>
        \E embedded \in EmbedOutcomes :
            /\ embedded.some
            /\ ~search_vectors(db, embedded.val, 5).raised
            /\ LET hits == search_vectors(db, embedded.val, 5).results IN
               /\ state.relevant_docs = ExpectedDocs(hits)
               /\ "llm" \in calls =>
                     prompt.context = [i \in 1 .. Len(hits) |-> hits[i].payload.content]


\* the transcript the graph was started with
InitialTranscript == initial_state(request).messages

\* the tool turn at position i answers a request of the assistant turn
\* right before it
Linked(msgs, i) ==
    /\ i > 1
    /\ msgs[i - 1].type = "ai"
    /\ msgs[i - 1].tool_calls # <<>>
    /\ \E k \in 1 .. Len(msgs[i - 1].tool_calls) :
          msgs[i - 1].tool_calls[k].id = msgs[i].tool_call_id

\* C17: every tool turn that the run has appended to the transcript comes
\* right after an assistant turn with tool requests and refers to the id of
\* one of these requests.
C17_ToolTurnsAnswerThePrecedingRequest ==
    steps # <<>> =>
        \A i \in (Len(InitialTranscript) + 1) .. Len(state.messages) :
            state.messages[i].type = "tool" => Linked(state.messages, i)


\* C18: every step of the graph leaves the transcript it found as a prefix
\* of the transcript it leaves: no turn is removed, replaced or reordered.
C18_TranscriptAppendOnly ==
    [][ (pc \in {RETRIEVE, DECIDE, TOOL_EXEC} /\ pc' # pc) =>
            IsPrefix(state.messages, state'.messages) ]_vars

\* C18 witness: after a tool cycle, a DECIDE that returned only its
\* response (a clarifying question) has ended the run
C18_Witness ==
    /\ Cycles >= 1
    /\ CLARIFYING
    /\ Len(state.messages) > Len(InitialTranscript) + 1

\* the outputs that TOOL_EXEC collects for the requests of a turn
Collected(turn) == run_tool_calls(turn.tool_calls).outputs

\* C19: tool_output is set only between a TOOL_EXEC and the DECIDE after it:
\* TOOL_EXEC sets it to the outputs it collected, the DECIDE puts it into its
\* request and clears it, and it is empty after RETRIEVE and when the run
\* has ended.
C19_PendingState ==
    /\ Truthy(state.tool_output) => (LastStep = TOOL_EXEC /\ pc = DECIDE)
    /\ LastStep = TOOL_EXEC =>
          /\ Truthy(state.tool_output)
          /\ state.tool_output.val = Collected(state.messages[Len(state.messages) - 1])
    /\ LastStep = RETRIEVE => state.tool_output = None
    /\ Ended => state.tool_output = None

C19_PendingToolResultLifecycle ==
    /\ [](C19_PendingState)
    /\ [][ (pc = DECIDE /\ pc' # pc) =>
              /\ prompt'.tool_output = state.tool_output
              /\ state'.tool_output = None ]_vars

\* C19 witness: a DECIDE has put the outputs of two requests into its
\* request and the run has ended
C19_Witness ==
    /\ Ended
    /\ prompt.tool_output.some /\ Len(prompt.tool_output.val) = 2
    /\ state.tool_output = None

\* C20: DECIDE and TOOL_EXEC leave relevant_docs as they found it, on every
\* branch.
C20_OnlyRetrieveWritesContext ==
    [][ (pc \in {DECIDE, TOOL_EXEC} /\ pc' # pc) =>
            state'.relevant_docs = state.relevant_docs ]_vars

\* C20 witness: a run that retrieved two documents, made a tool cycle and
\* ended with a clarifying question
C20_Witness ==
    /\ Len(state.relevant_docs) = 2
    /\ Cycles >= 1
    /\ CLARIFYING


-----------------------------------------------------------------------------
(* Properties of the response *)

\* the content of the assistant turn that a DECIDE appends for the outcome
\* r of the LLM call
TurnContent(r) == IF r.failed THEN <<LLMErrorText>> ELSE r.content

\* C21: the final answer of a run that ended in ANSWERED is the content of
\* the assistant turn that the last DECIDE appended, the last turn of the
\* transcript, which carries no tool request.
C21_FinalAnswerIsTheLastTurn ==
    (pc = "done" /\ route = "end") =>
        /\ http.status = 200
        /\ http.response = TurnContent(llm)
        /\ llm.tool_calls = <<>>
        /\ state.messages[Len(state.messages)] = AIMessage(http.response, <<>>)

\* C21 witness: after a tool cycle the answer "4" is returned, while the
\* history holds an earlier answer and the turn with the tool request has
\* no text
C21_Witness ==
    /\ pc = "done" /\ route = "end"
    /\ Cycles >= 1
    /\ request.chat_history = H_turn
    /\ http.response = <<"4">>


-----------------------------------------------------------------------------
(* Properties of concurrent runs *)

-----------------------------------------------------------------------------
(* Properties of the tools, the marker and the retrieval *)

\* C23: a run whose external call does not return abandons the call after
\* a bounded wait and reaches ANSWERED or CLARIFYING.
C23_HungCallIsAbandoned == [](pc = "blocked" => <>(ANSWERED \/ CLARIFYING))


\* the expressions of the inputs that are made of numbers, + - * / and
\* parentheses only
Arithmetic == {"2+2", "1/0"}

\* C24: a calculator request whose expression is not plain arithmetic gets
\* an error result, and the expression is not run.
C24_CalculatorRunsArithmeticOnly ==
    [][ (pc = TOOL_EXEC /\ pc' # pc) =>
            LET requests == state.messages[Len(state.messages)].tool_calls IN
            \A i \in 1 .. Len(requests) :
                (/\ requests[i].name = "calculator"
                 /\ requests[i].expression.some
                 /\ requests[i].expression.val \notin Arithmetic) =>
                    /\ pc' = DECIDE
                    /\ state'.tool_output.val[i] \in ErrorResults ]_vars


\* C25: an upsert of no vectors and no payloads into an index returns
\* without an error and leaves the index and the payload map as they were.
C25_EmptyUpsertIsNoOp ==
    [][ (last'.op = "upsert" /\ db.index.some
            /\ last'.vectors = <<>> /\ last'.payloads = <<>>) =>
            /\ ~last'.raised
            /\ db' = db ]_vars

\* the tool turns of a transcript
ToolTurns(msgs) == {i \in 1 .. Len(msgs) : msgs[i].type = "tool"}

\* C26: a TOOL_EXEC on a turn with n requests collects n results, the i-th
\* for the i-th request, appends one tool turn that refers to the first
\* request and carries the n results, and sets tool_output to them.
C26_ToolExecCollectsAllResults ==
    [][ (pc = TOOL_EXEC /\ pc' # pc) =>
            LET requests == state.messages[Len(state.messages)].tool_calls
                n == Len(requests)
                after == state'.messages
            IN  /\ n >= 1
                /\ pc' = DECIDE
                /\ state'.tool_output.some
                /\ Len(state'.tool_output.val) = n
                /\ \A i \in 1 .. n :
                      state'.tool_output.val[i] = run_tool_call(requests[i]).text
                /\ after[Len(after)] = ToolMessage(state'.tool_output.val, requests[1].id)
                /\ Cardinality(ToolTurns(after))
                      = Cardinality(ToolTurns(state.messages)) + 1 ]_vars

\* C27: the clarifying question of a response that begins with the marker
\* is the response without that first marker (and without the blanks
\* around it); a marker further on in the text stays.
C27_OnlyLeadingMarkerRemoved ==
    DecidedWithMarker =>
        state.clarifying_question = Some(Strip(Tail(llm.content)))


\* the human turns of a transcript
HumanTurns(msgs) == {i \in 1 .. Len(msgs) : msgs[i].type = "human"}

\* the text of the last human turn of a transcript that has one
LastHumanText(msgs) ==
    msgs[CHOOSE i \in HumanTurns(msgs) : \A j \in HumanTurns(msgs) : j <= i].content

\* RETRIEVE made no embedding or index call and left an empty context
RetrievalSkipped ==
    /\ query = NoQuery
    /\ calls \cap {"embed", "search"} = {}
    /\ state.relevant_docs = <<>>

\* RETRIEVE embedded the text and, when the embedding returned, asked the
\* index for the top 5
RetrievedFor(text) ==
    /\ query.text = Some(text)
    /\ "embed" \in calls
    /\ "search" \in calls => query.limit = 5
    /\ query.limit \in {0, 5}

SlotIds == {last.slots[i].idx : i \in 1 .. Len(last.slots)} \ {-1}

\* the slots of the last search are its limit nearest vectors, best first
SlotsAreTheNearest ==
    /\ Len(last.slots) = last.limit
    /\ Cardinality(SlotIds) = Min(last.limit, ntotal(db.index))
    /\ \A i \in SlotIds, j \in (0 .. (ntotal(db.index) - 1)) \ SlotIds :
          SqDist(last.query, db.index.vecs[i + 1]) <= SqDist(last.query, db.index.vecs[j + 1])
    /\ \A i \in 1 .. Len(last.slots) :
          last.slots[i].idx # -1 =>
              last.slots[i].distance = SqDist(last.query, db.index.vecs[last.slots[i].idx + 1])

\* the id has a payload entry
HasEntry(idx) == Str(idx) \in DOMAIN db.doc_store

\* the id has a payload entry and the payload is not empty
HasNonEmptyEntry(idx) == HasEntry(idx) /\ DOMAIN db.doc_store[Str(idx)] # {}

\* the slots of the last search that hold a vector whose id is in `ids`,
\* as results
Hits(ids) ==
    LET Kept(s) == s.idx \in ids
        kept == SelectSeq(last.slots, Kept)
    IN  [i \in 1 .. Len(kept) |->
            [payload |-> db.doc_store[Str(kept[i].idx)], score |-> kept[i].distance]]

\* a search with a query vector of the dimension of the index
SearchedWell ==
    /\ last.op = "search"
    /\ db.index.some => Len(last.query) = db.index.d

C30_IdsAreImmutable ==
    [][ last'.op = "upsert" =>
            /\ \A k \in DOMAIN db.doc_store :
                  k \in DOMAIN db'.doc_store /\ db'.doc_store[k] = db.doc_store[k]
            /\ Len(last'.vectors) # Len(last'.payloads) =>
                  last'.raised /\ db' = db ]_vars


-----------------------------------------------------------------------------
(* Properties of threads on one manager *)

\* C31: a search that runs while another thread is inside an upsert finds
\* no vector id whose payload is not stored: every id that the index
\* returns has a payload entry, so no hit is dropped.
C31_SearchSeesWholeUpserts ==
    [][ (last'.op = "search" /\ ~last'.raised) =>
            \A i \in 1 .. Len(last'.slots) :
                last'.slots[i].idx # -1 =>
                    Str(last'.slots[i].idx) \in DOMAIN db'.doc_store ]_vars

\* run alone, the steps of an upsert give what upsert_vectors gives
SplitUpsertIsUpsert ==
    [][ (writer.busy /\ ~writer'.busy) =>
            LET before == [index |-> [db.index EXCEPT !.vecs =
                                         SubSeq(@, 1, writer.total)],
                           doc_store |-> db.doc_store]
            IN  db' = upsert_vectors(before, writer.vectors, writer.payloads).m ]_vars


-----------------------------------------------------------------------------
(* Properties of the request to the model and of the returned transcript *)

\* the request of a DECIDE step is one system turn made of the context and
\* the pending tool result, followed by the transcript as it stands
SendsSystemTurnAndTranscript ==
    [][ (pc = DECIDE /\ pc' # pc) =>
            /\ prompt'.messages = state.messages
            /\ prompt'.context =
                  [i \in 1 .. Len(state.relevant_docs) |-> state.relevant_docs[i].page_content]
            /\ prompt'.tool_output =
                  (IF Truthy(state.tool_output) THEN state.tool_output ELSE None) ]_vars

\* C32: a DECIDE step sends the model one synthesized system turn followed
\* by the whole transcript, and adds to the transcript at most one turn,
\* an assistant turn, never the system turn.
C32_DecideSendsAllAndAddsOneTurn ==
    [][ (pc = DECIDE /\ pc' # pc) =>
            /\ prompt'.messages = state.messages
            /\ prompt'.context =
                  [i \in 1 .. Len(state.relevant_docs) |-> state.relevant_docs[i].page_content]
            /\ prompt'.tool_output =
                  (IF Truthy(state.tool_output) THEN state.tool_output ELSE None)
            /\ IsPrefix(state.messages, state'.messages)
            /\ Len(state'.messages) <= Len(state.messages) + 1
            /\ \A i \in (Len(state.messages) + 1) .. Len(state'.messages) :
                  state'.messages[i].type = "ai" ]_vars


\* the steps of the run that produce a turn
ProducingSteps == {i \in DOMAIN steps : steps[i] \in {DECIDE, TOOL_EXEC}}

\* C33: whatever the outcome of a request, a clarifying question included,
\* the chat history returned holds the caller's prior turns in order, then
\* the new human turn, then the turns the run appended, and nothing else.
C33_ReturnedTranscriptIsComplete ==
    pc = "done" =>
        LET h == http.chat_history
            prior == request.chat_history
            n == Len(prior)
        IN  /\ h # <<>>
            /\ Len(h) = n + 1 + Cardinality(ProducingSteps)
            /\ \A i \in 1 .. n :
                  h[i].type = prior[i].type /\ h[i].content = prior[i].content
            /\ h[n + 1].type = "human" /\ h[n + 1].content = request.message
            /\ \A i \in (n + 2) .. Len(h) : h[i].type \in {"ai", "tool"}


-----------------------------------------------------------------------------
(* Properties of the Agent of the service *)

\* C34: once the Agent is constructed its vector index is initialised, from
\* the index file when that exists, so that RETRIEVE searches the persisted
\* vectors and never an uninitialised index.
C34_AgentIndexIsLoaded ==
    agent_instance = "Agent" =>
        /\ db.index.some
        /\ disk.exists => db.index = disk.index


\* C35: however the first requests interleave in get_agent, at most one
\* Agent is constructed and every request is given that same instance.
C35_AgentInitialisedOnce ==
    /\ built <= 1
    /\ \A c \in Callers : callers[c].at = "done" => callers[c].got = "Agent"

\* an initialisation that fails stores no instance, and a request that
\* comes later constructs again
FailedInitStoresNothing ==
    [][ \A c \in Callers :
            (callers[c].at = "construct" /\ callers'[c].at = "failed") =>
                agent_instance' = agent_instance ]_vars


\* the steps of the run that produce a turn, in order
Produced == SelectSeq(steps, LAMBDA s : s \in {DECIDE, TOOL_EXEC})

\* C36: when a run has ended, its transcript is the initial transcript
\* followed by the turns the run produced, each once: an assistant turn for
\* each DECIDE and a tool turn for each TOOL_EXEC, in the order of the steps.
C36_TranscriptHasEachTurnOnce ==
    Ended =>
        LET n == Len(InitialTranscript) IN
        /\ IsPrefix(InitialTranscript, state.messages)
        /\ Len(state.messages) = n + Len(Produced)
        /\ \A k \in 1 .. Len(Produced) :
              state.messages[n + k].type = (IF Produced[k] = DECIDE THEN "ai" ELSE "tool")


\* the transcript that the next request starts from, before its own
\* message, when it is given the chat history of this response
NextStart == langchain_chat_history(http.chat_history)

\* C37: when the chat history of a response is sent back as the chat
\* history of the next request, the run starts from the turns that the
\* finished run ended with: the same turns in the same order, the tool
\* requests with their ids, and every tool turn still answering a request
\* of the assistant turn before it.
C37_HistoryRoundTrip ==
    (pc = "done" /\ http.status = 200) =>
        /\ NextStart = state.messages
        /\ \A i \in 1 .. Len(NextStart) :
              (NextStart[i].type = "tool" /\ Linked(state.messages, i)) =>
                  Linked(NextStart, i)


-----------------------------------------------------------------------------
(* Properties of the UI session *)

\* C38: for a message sent from the UI, the chat_history of the request
\* holds only the turns before the new message, so the transcript of the
\* run has one turn for each message of the session and ends with the new
\* message, present once.
C38_NewMessageSentOnce ==
    (pc # "idle" /\ session # <<>>) =>
        /\ request.chat_history = format_chat_history_before(session)
        /\ Len(InitialTranscript) = Len(session)
        /\ InitialTranscript[Len(InitialTranscript)] = HumanMessage(request.message)

=============================================================================
